---- MODULE Spec2Model ----
(***************************************************************************)
(* Model of CosyVoice/webui.py: the generate_audio generator (prompt audio *)
(* resolution, mode validation, audio conditioning, seeding, dispatch to   *)
(* the synthesis engine and relay of its segments), run by up to           *)
(* default_concurrency_limit workers that share one engine and one         *)
(* process-wide random source.                                             *)
(*                                                                         *)
(* Amplitudes are integers in hundredths of full scale (0.8 is 80).        *)
(* A waveform / array is kept sparsely: [len |-> number of samples,        *)
(* nz |-> function from the (1-based) indices of its non-zero samples to   *)
(* their values]; every sample outside DOMAIN nz is zero.                  *)
(***************************************************************************)
EXTENDS Integers, Sequences, FiniteSets, TLC

VARIABLES
    instruct,           \* cosyvoice.frontend.instruct of the loaded model
    req,                \* req[w]: arguments of the generate_audio call worker w runs
    pc,                 \* pc[w]: where worker w's generator stands
    prompt_wav,         \* prompt_wav[w]: local variable of generate_audio
    prompt_speech_16k,  \* prompt_speech_16k[w]: local variable of generate_audio
    it,                 \* it[w]: the engine's generator the for loop iterates
    out,                \* out[w]: the chunks the caller has received from the stream
    log,                \* log[w]: what the generator did, in order
    err,                \* err[w]: the exception that ended the generator, if any
    rng,                \* the process-wide random source
    updates,            \* the updates generate_seed has returned to the seed box, in order
    waveform,           \* the argument of a direct call of postprocess
    conditioned         \* what that call returned

vars == <<instruct, req, pc, prompt_wav, prompt_speech_16k, it, out, log, err, rng,
          updates, waveform, conditioned>>

----------------------------------------------------------------------------
(* Program constants *)

prompt_sr == 16000
target_sr == 22050
max_val == 80
top_db == 60
hop_length == 220
win_length == 440
default_concurrency_limit == 2

(* Bounds of the model *)

MaxTextLen == 2

MaxClicks == 2

MaxWaveLen == 900

----------------------------------------------------------------------------
(* Values *)

None == "None"

PretrainedVoice == "Pre-trained Voice"
RapidCloning == "3s Rapid Cloning"
CrossLingual == "Cross-lingual Cloning"
InstructControl == "Natural Language Control"

inference_mode_list == <<PretrainedVoice, RapidCloning, CrossLingual, InstructControl>>

Modes == {inference_mode_list[i] : i \in DOMAIN inference_mode_list}

sft_spk == <<"voiceA", "voiceB">>

Workers == 1..default_concurrency_limit

\* A synthesis text is a sequence of sentences; the engine yields per sentence.
Texts == {[i \in 1..n |-> i] : n \in 0..MaxTextLen}

Seeds == {0, 42}

\* speed, in tenths: the ends of the gr.Number range
Speeds == {5, 20}

----------------------------------------------------------------------------
(* Arrays *)

Zeros(n) == [len |-> n, nz |-> <<>>]

Sample(a, i) == IF i \in DOMAIN a.nz THEN a.nz[i] ELSE 0

Abs(x) == IF x < 0 THEN -x ELSE x

SetMax(S) == CHOOSE m \in S : \A x \in S : x <= m

SetMin(S) == CHOOSE m \in S : \A x \in S : m <= x

\* speech.abs().max()
AbsMax(a) == SetMax({0} \cup {Abs(a.nz[i]) : i \in DOMAIN a.nz})

\* y[..., start:end] with 0-based start and end
Slice(a, start, end) ==
    LET keep == {i \in DOMAIN a.nz : start < i /\ i <= end}
    IN  [len |-> IF end > start THEN end - start ELSE 0,
         nz |-> [j \in {i - start : i \in keep} |-> a.nz[j + start]]]

\* torch.concat([a, b], dim=1)
Concat(a, b) ==
    [len |-> a.len + b.len,
     nz |-> [j \in DOMAIN a.nz \cup {i + a.len : i \in DOMAIN b.nz} |->
                IF j \in DOMAIN a.nz THEN a.nz[j] ELSE b.nz[j - a.len]]]

\* x / peak on one sample: normalised to full scale, max_val left out
ScaleSampleToFullScale(x, peak) ==
    IF x < 0 THEN -((-x * 100) \div peak) ELSE (x * 100) \div peak

\* x / peak * max_val on one sample, in hundredths (rounded towards zero)
ScaleSample(x, peak) ==
    IF x < 0 THEN -((-x * max_val) \div peak) ELSE (x * max_val) \div peak

Rescale(a, peak) ==
    LET v == [i \in DOMAIN a.nz |-> ScaleSample(a.nz[i], peak)]
        keep == {i \in DOMAIN v : v[i] # 0}
    IN  [len |-> a.len, nz |-> [i \in keep |-> v[i]]]

----------------------------------------------------------------------------
(* Prompt audio files the caller can hand in *)

Files == {"low.wav", "quiet.wav", "loud.wav"}

\* torchaudio.info(path).sample_rate
FileRate(f) ==
    CASE f = "low.wav" -> 8000
      [] f = "quiet.wav" -> 16000
      [] f = "loud.wav" -> 44100

\* the file's samples at 16 kHz
FileWave(f) ==
    CASE f = "low.wav" -> [len |-> 500, nz |-> (100 :> 20 @@ 101 :> -20)]
      [] f = "quiet.wav" -> [len |-> 700, nz |-> (300 :> 50 @@ 301 :> -30)]
      [] f = "loud.wav" -> [len |-> 900, nz |-> (500 :> 100 @@ 520 :> -40 @@ 880 :> 90)]

\* load_wav(path, prompt_sr)
load_wav(f, sr) == FileWave(f)

----------------------------------------------------------------------------
(* librosa.effects.trim(speech, top_db, frame_length, hop_length) *)

RECURSIVE SumSq(_, _)
SumSq(a, S) ==
    IF S = {} THEN 0
    ELSE LET i == CHOOSE x \in S : TRUE
         IN  a.nz[i] * a.nz[i] + SumSq(a, S \ {i})

Frames(a, hop) == 0..(a.len \div hop)

\* energy of the centred frame t: 0-based samples [t*hop - win/2, t*hop + win/2)
FrameEnergy(a, t, win, hop) ==
    SumSq(a, {i \in DOMAIN a.nz :
                /\ t * hop - (win \div 2) <= i - 1
                /\ i - 1 < t * hop + (win \div 2)})

\* frame t is within db decibels of the loudest frame; a frame of energy zero
\* counts as amin^2 = 1e-10 per sample, i.e. 1e-6 * win in squared hundredths
NonSilent(a, t, db, win, hop) ==
    LET e == FrameEnergy(a, t, win, hop)
        emax == SetMax({FrameEnergy(a, u, win, hop) : u \in Frames(a, hop)})
        ratio == 10 ^ (db \div 10)
    IN  IF emax = 0 THEN TRUE
        ELSE IF e = 0 THEN emax <= (win * ratio - 1) \div 1000000
        ELSE e > emax \div ratio

trim(a, db, win, hop) ==
    LET ns == {t \in Frames(a, hop) : NonSilent(a, t, db, win, hop)}
        start == IF ns = {} THEN 0 ELSE SetMin(ns) * hop
        end == IF ns = {} THEN 0 ELSE SetMin({a.len, (SetMax(ns) + 1) * hop})
    IN  Slice(a, start, end)

\* the padding measured at the prompt sample rate
postprocess_pad_prompt_sr(speech) ==
    LET trimmed == trim(speech, top_db, win_length, hop_length)
        scaled == IF AbsMax(trimmed) > max_val
                  THEN Rescale(trimmed, AbsMax(trimmed))
                  ELSE trimmed
    IN  Concat(scaled, Zeros((prompt_sr * 2) \div 10))

\* lines 46-55
postprocess(speech) ==
    LET trimmed == trim(speech, top_db, win_length, hop_length)
        scaled == IF AbsMax(trimmed) > max_val
                  THEN Rescale(trimmed, AbsMax(trimmed))
                  ELSE trimmed
    IN  Concat(scaled, Zeros((target_sr * 2) \div 10))

default_data == Zeros(target_sr)

\* the waveforms postprocess is tried on: a few samples of chosen amplitudes
\* (in hundredths) in otherwise silent audio
WaveLens == {MaxWaveLen - 400, MaxWaveLen}

Positions == {1, 300, MaxWaveLen - 400, MaxWaveLen - 20}

Amplitudes == {-100, -30, 1, 80, 81}

Waves ==
    UNION {UNION {{[len |-> n, nz |-> f] : f \in [P -> Amplitudes]} :
                    P \in SUBSET {i \in Positions : i <= n}} :
             n \in WaveLens}

----------------------------------------------------------------------------
(* Requests: the arguments of one generate_audio call *)

PromptTexts == {"", "prompt"}

InstructTexts == {"", "instruct"}

AllRequests ==
    [tts_text : Texts,
     mode_checkbox_group : Modes,
     sft_dropdown : {sft_spk[i] : i \in DOMAIN sft_spk},
     prompt_text : PromptTexts,
     prompt_wav_upload : {None} \cup Files,
     prompt_wav_record : {None} \cup Files,
     instruct_text : InstructTexts,
     seed : Seeds,
     stream : BOOLEAN,
     speed : Speeds]

\* the requests concurrent callers send (one prompt file, no recording)
ConcRequests ==
    {q \in AllRequests :
        /\ q.mode_checkbox_group \in {PretrainedVoice, RapidCloning}
        /\ q.prompt_wav_upload = "loud.wav"
        /\ q.prompt_wav_record = None
        /\ (q.mode_checkbox_group = PretrainedVoice => q.prompt_text = "prompt")
        /\ q.instruct_text = ""
        /\ q.sft_dropdown = sft_spk[1]
        /\ q.stream = TRUE
        /\ q.speed = 20}

\* the requests of a caller who generates, edits the form and generates again
PairRequests ==
    {q \in AllRequests :
        /\ q.mode_checkbox_group \in {RapidCloning, CrossLingual, InstructControl}
        /\ Len(q.tts_text) > 0
        /\ q.prompt_wav_upload # "low.wav"
        /\ q.prompt_wav_record = None
        /\ q.stream = TRUE
        /\ q.speed = 20}

\* the form fields the caller edits between the two clicks
Edited(q1, q2) ==
    /\ q2.tts_text = q1.tts_text
    /\ q2.mode_checkbox_group = q1.mode_checkbox_group
    /\ q2.seed = q1.seed

NoRequest == [mode_checkbox_group |-> None]

NoSpeech == Zeros(0)

NoIterator == [call |-> [op |-> None], k |-> 0]

----------------------------------------------------------------------------
(* Events a generator leaves in its log *)

Warning(line) == [e |-> "Warning", line |-> line]

Info(line) == [e |-> "Info", line |-> line]

Probe(f) == [e |-> "torchaudio.info", file |-> f]

Load(f) == [e |-> "load_wav", file |-> f]

Condition(a) == [e |-> "postprocess", speech |-> a]

Seeding(s) == [e |-> "set_all_random_seed", seed |-> s]

Invocation(c) == [e |-> "inference", call |-> c]

Yield(line) == [e |-> "yield", line |-> line]

----------------------------------------------------------------------------
(* Lines 62-67: the effective prompt audio *)

\* the recording taking priority over the upload
ResolveRecordFirst(q) ==
    IF q.prompt_wav_record # None THEN q.prompt_wav_record
    ELSE IF q.prompt_wav_upload # None THEN q.prompt_wav_upload
    ELSE None

ResolvePromptWav(q) ==
    IF q.prompt_wav_upload # None THEN q.prompt_wav_upload
    ELSE IF q.prompt_wav_record # None THEN q.prompt_wav_record
    ELSE None

----------------------------------------------------------------------------
(* The conditions of the checks of lines 69-105 that yield the placeholder *)

\* lines 69-70
InstructUnsupported(q, ins) ==
    q.mode_checkbox_group = InstructControl /\ ins = FALSE

\* lines 69, 73
InstructTextEmpty(q) ==
    q.mode_checkbox_group = InstructControl /\ q.instruct_text = ""

\* lines 79-80
CrossLingualUnsupported(q, ins) ==
    q.mode_checkbox_group = CrossLingual /\ ins = TRUE

\* lines 79, 85
CrossLingualNoPrompt(q, pw) ==
    q.mode_checkbox_group = CrossLingual /\ pw = None

\* line 90
NeedsPrompt(q) == q.mode_checkbox_group \in {RapidCloning, CrossLingual}

\* lines 90-91
PromptMissing(q, pw) == NeedsPrompt(q) /\ pw = None

\* line 94
PromptRateLow(pw) == FileRate(pw) < prompt_sr

\* the prompt text check applied to the wrong mode
PromptTextEmptyAnyMode(q) == q.prompt_text = ""

\* lines 102-103
PromptTextEmpty(q) ==
    q.mode_checkbox_group = RapidCloning /\ q.prompt_text = ""

----------------------------------------------------------------------------
(* Lines 69-107: the checks, in the order the code runs them.  Each step   *)
(* gives the events it logs and where it stops: "" (falls through to the   *)
(* next step), a yield of the placeholder chunk, or "raise".              *)

Go(evs) == [ev |-> evs, stop |-> ""]

YieldAt(evs, line, label) == [ev |-> evs \o <<Yield(line)>>, stop |-> label]

LastStep == 12

ValidationStep(i, q, pw, ins) ==
    LET m == q.mode_checkbox_group
    IN  CASE i = 1 ->  \* lines 70-72
                IF InstructUnsupported(q, ins)
                THEN YieldAt(<<Warning(71)>>, 72, "y72") ELSE Go(<<>>)
          [] i = 2 ->  \* lines 73-75
                IF InstructTextEmpty(q)
                THEN YieldAt(<<Warning(74)>>, 75, "y75") ELSE Go(<<>>)
          [] i = 3 ->  \* lines 76-77
                IF m = InstructControl /\ (pw # None \/ q.prompt_text # "")
                THEN Go(<<Info(77)>>) ELSE Go(<<>>)
          [] i = 4 ->  \* lines 80-82
                IF CrossLingualUnsupported(q, ins)
                THEN YieldAt(<<Warning(81)>>, 82, "y82") ELSE Go(<<>>)
          [] i = 5 ->  \* lines 83-84
                IF m = CrossLingual /\ q.instruct_text # ""
                THEN Go(<<Info(84)>>) ELSE Go(<<>>)
          [] i = 6 ->  \* lines 85-87
                IF CrossLingualNoPrompt(q, pw)
                THEN YieldAt(<<Warning(86)>>, 87, "y87") ELSE Go(<<>>)
          [] i = 7 ->  \* line 88
                IF m = CrossLingual THEN Go(<<Info(88)>>) ELSE Go(<<>>)
          [] i = 8 ->  \* lines 91-93
                IF PromptMissing(q, pw)
                THEN YieldAt(<<Warning(92)>>, 93, "y93") ELSE Go(<<>>)
          [] i = 9 ->  \* lines 94-96: torchaudio.info(None) raises
                IF ~NeedsPrompt(q) THEN Go(<<>>)
                ELSE IF pw = None THEN [ev |-> <<Probe(None)>>, stop |-> "raise"]
                ELSE IF PromptRateLow(pw)
                THEN YieldAt(<<Probe(pw), Probe(pw), Warning(95)>>, 96, "y96")
                ELSE Go(<<Probe(pw)>>)
          [] i = 10 -> \* lines 98-100
                IF m = PretrainedVoice
                   /\ (q.instruct_text # "" \/ pw # None \/ q.prompt_text # "")
                THEN Go(<<Info(100)>>) ELSE Go(<<>>)
          [] i = 11 -> \* lines 102-105
                IF PromptTextEmpty(q)
                THEN YieldAt(<<Warning(104)>>, 105, "y105") ELSE Go(<<>>)
          [] i = 12 -> \* lines 106-107
                IF m = RapidCloning /\ q.instruct_text # ""
                THEN Go(<<Info(107)>>) ELSE Go(<<>>)

\* run the checks from step i to the next stop; past the last one the
\* generator stands at line 109
RECURSIVE RunChecks(_, _, _, _)
RunChecks(i, q, pw, ins) ==
    IF i > LastStep THEN [ev |-> <<>>, stop |-> "l109"]
    ELSE LET s == ValidationStep(i, q, pw, ins)
         IN  IF s.stop # "" THEN s
             ELSE LET r == RunChecks(i + 1, q, pw, ins)
                  IN  [ev |-> s.ev \o r.ev, stop |-> r.stop]

ValidationYields == {"y72", "y75", "y82", "y87", "y93", "y96", "y105"}

\* the step a generator suspended in the checks resumes at
ResumeStep(label) ==
    CASE label = "new" -> 1
      [] label = "y72" -> 2
      [] label = "y75" -> 3
      [] label = "y82" -> 5
      [] label = "y87" -> 7
      [] label = "y93" -> 9
      [] label = "y96" -> 10
      [] label = "y105" -> 12

----------------------------------------------------------------------------
(* The synthesis engine (cosyvoice) and the random source *)

Unseeded == [seed |-> -1, n |-> 0]

\* set_all_random_seed(seed)
set_all_random_seed(s) == [seed |-> s, n |-> 0]

\* the random source after one more draw
Advance(r) == [seed |-> r.seed, n |-> r.n + 1]

Call(op, q, spk, ptext, speech, itext) ==
    [op |-> op, tts_text |-> q.tts_text, spk |-> spk, prompt_text |-> ptext,
     prompt_speech |-> speech, instruct_text |-> itext,
     stream |-> q.stream, speed |-> q.speed]

\* number of segments the engine yields for a call: one per sentence when
\* streaming, one for the whole text otherwise
SegCount(c) ==
    IF c.stream THEN Len(c.tts_text)
    ELSE IF Len(c.tts_text) > 0 THEN 1 ELSE 0

\* i['tts_speech'] of the k-th segment: a function of the call's arguments
\* and of the random state it is drawn from
Segment(c, k, r) == [call |-> c, k |-> k, rand |-> r]

\* (target_sr, i['tts_speech'].numpy().flatten())
Chunk(seg) == <<target_sr, seg>>

Placeholder == <<target_sr, default_data>>

----------------------------------------------------------------------------
(* Lines 109-130: which engine operation the mode selects *)

\* the operation chosen by the instruct text instead of the mode alone
DispatchCallByInstructText(q, speech) ==
    CASE q.mode_checkbox_group = PretrainedVoice /\ q.instruct_text = "" ->
            Call("inference_sft", q, q.sft_dropdown, None, NoSpeech, None)
      [] q.mode_checkbox_group = RapidCloning ->
            Call("inference_zero_shot", q, None, q.prompt_text, speech, None)
      [] q.mode_checkbox_group = CrossLingual ->
            Call("inference_cross_lingual", q, None, None, speech, None)
      [] OTHER ->
            Call("inference_instruct", q, q.sft_dropdown, None, NoSpeech, q.instruct_text)

\* cross-lingual cloning handed the prompt text as rapid cloning is
DispatchCallPromptTextToCrossLingual(q, speech) ==
    CASE q.mode_checkbox_group = PretrainedVoice ->
            Call("inference_sft", q, q.sft_dropdown, None, NoSpeech, None)
      [] q.mode_checkbox_group = RapidCloning ->
            Call("inference_zero_shot", q, None, q.prompt_text, speech, None)
      [] q.mode_checkbox_group = CrossLingual ->
            Call("inference_cross_lingual", q, None, q.prompt_text, speech, None)
      [] OTHER ->
            Call("inference_instruct", q, q.sft_dropdown, None, NoSpeech, q.instruct_text)

\* lines 109-130
DispatchCall(q, speech) ==
    CASE q.mode_checkbox_group = PretrainedVoice ->
            Call("inference_sft", q, q.sft_dropdown, None, NoSpeech, None)
      [] q.mode_checkbox_group = RapidCloning ->
            Call("inference_zero_shot", q, None, q.prompt_text, speech, None)
      [] q.mode_checkbox_group = CrossLingual ->
            Call("inference_cross_lingual", q, None, None, speech, None)
      [] OTHER ->
            Call("inference_instruct", q, q.sft_dropdown, None, NoSpeech, q.instruct_text)

\* the loaded prompt passed on without conditioning
RawPrompt(pw) == load_wav(pw, prompt_sr)

\* lines 116, 122
ConditionPrompt(pw) == postprocess(load_wav(pw, prompt_sr))

\* every segment handed over twice
EmitTwice(stream, seg) == Append(Append(stream, Chunk(seg)), Chunk(seg))

\* lines 113, 119, 125, 130: the yield hands one more chunk to the caller
Emit(stream, seg) == Append(stream, Chunk(seg))

----------------------------------------------------------------------------
(* Initial state: the model is loaded, no request is running *)

Init ==
    /\ instruct \in BOOLEAN
    /\ req = [w \in Workers |-> NoRequest]
    /\ pc = [w \in Workers |-> "idle"]
    /\ prompt_wav = [w \in Workers |-> None]
    /\ prompt_speech_16k = [w \in Workers |-> NoSpeech]
    /\ it = [w \in Workers |-> NoIterator]
    /\ out = [w \in Workers |-> <<>>]
    /\ log = [w \in Workers |-> <<>>]
    /\ err = [w \in Workers |-> None]
    /\ rng = Unseeded
    /\ updates = <<>>
    /\ waveform = NoSpeech
    /\ conditioned = NoSpeech

(* generate_button.click: the queue hands request q to a free worker, which *)
(* calls generate_audio(...); the generator is created, nothing runs yet.   *)
Submit(w, q) ==
    /\ pc[w] = "idle"
    /\ req' = [req EXCEPT ![w] = q]
    /\ pc' = [pc EXCEPT ![w] = "new"]
    /\ prompt_wav' = [prompt_wav EXCEPT ![w] = None]
    /\ prompt_speech_16k' = [prompt_speech_16k EXCEPT ![w] = NoSpeech]
    /\ it' = [it EXCEPT ![w] = NoIterator]
    /\ out' = [out EXCEPT ![w] = <<>>]
    /\ log' = [log EXCEPT ![w] = <<>>]
    /\ err' = [err EXCEPT ![w] = None]
    /\ UNCHANGED <<updates, waveform, conditioned, instruct, rng>>

(* The caller pulls the stream while the generator is in lines 62-107: it   *)
(* runs to the next yield of the placeholder, to the exception of line 94,  *)
(* or to line 109.                                                          *)
Validate(w) ==
    /\ pc[w] \in {"new"} \cup ValidationYields
    /\ LET pw == IF pc[w] = "new" THEN ResolvePromptWav(req[w]) ELSE prompt_wav[w]
           r == RunChecks(ResumeStep(pc[w]), req[w], pw, instruct)
       IN  /\ prompt_wav' = [prompt_wav EXCEPT ![w] = pw]
           /\ log' = [log EXCEPT ![w] = @ \o r.ev]
           /\ IF r.stop \in ValidationYields
              THEN /\ out' = [out EXCEPT ![w] = Append(@, Placeholder)]
                   /\ pc' = [pc EXCEPT ![w] = r.stop]
                   /\ err' = err
              ELSE IF r.stop = "raise"
              THEN /\ pc' = [pc EXCEPT ![w] = "failed"]
                   /\ err' = [err EXCEPT ![w] = "torchaudio.info"]
                   /\ out' = out
              ELSE /\ pc' = [pc EXCEPT ![w] =
                                IF NeedsPrompt(req[w]) THEN "load" ELSE "seed"]
                   /\ UNCHANGED <<out, err>>
    /\ UNCHANGED <<updates, waveform, conditioned, instruct, req, prompt_speech_16k, it, rng>>

\* the seed set first, the prompt loaded and conditioned after it
LoadPromptAfterSeeding(w) ==
    /\ pc[w] = "load"
    /\ rng' = set_all_random_seed(req[w].seed)
    /\ LET speech == ConditionPrompt(prompt_wav[w])
       IN  /\ prompt_speech_16k' = [prompt_speech_16k EXCEPT ![w] = speech]
           /\ log' = [log EXCEPT ![w] = @ \o <<Seeding(req[w].seed),
                                               Load(prompt_wav[w]), Condition(speech)>>]
    /\ pc' = [pc EXCEPT ![w] = "invoke"]
    /\ UNCHANGED <<updates, waveform, conditioned, instruct, req, prompt_wav, it, out, err>>

(* Lines 116 and 122: prompt_speech_16k = postprocess(load_wav(prompt_wav, prompt_sr)) *)
LoadPrompt(w) ==
    /\ pc[w] = "load"
    /\ LET speech == ConditionPrompt(prompt_wav[w])
       IN  /\ prompt_speech_16k' = [prompt_speech_16k EXCEPT ![w] = speech]
           /\ log' = [log EXCEPT ![w] = @ \o <<Load(prompt_wav[w]), Condition(speech)>>]
    /\ pc' = [pc EXCEPT ![w] = "seed"]
    /\ UNCHANGED <<updates, waveform, conditioned, instruct, req, prompt_wav, it, out, err, rng>>

(* Lines 111, 117, 123, 128: set_all_random_seed(seed) *)
Seed(w) ==
    /\ pc[w] = "seed"
    /\ rng' = set_all_random_seed(req[w].seed)
    /\ log' = [log EXCEPT ![w] = Append(@, Seeding(req[w].seed))]
    /\ pc' = [pc EXCEPT ![w] = "invoke"]
    /\ UNCHANGED <<updates, waveform, conditioned, instruct, req, prompt_wav, prompt_speech_16k, it, out, err>>

(* Lines 112, 118, 124, 129: the for statement calls the engine operation *)
Invoke(w) ==
    /\ pc[w] = "invoke"
    /\ LET c == DispatchCall(req[w], prompt_speech_16k[w])
       IN  /\ it' = [it EXCEPT ![w] = [call |-> c, k |-> 0]]
           /\ log' = [log EXCEPT ![w] = Append(@, Invocation(c))]
    /\ pc' = [pc EXCEPT ![w] = "next"]
    /\ UNCHANGED <<updates, waveform, conditioned, instruct, req, prompt_wav, prompt_speech_16k, out, err, rng>>

\* the chunks of every request yielded into one shared stream
RelayShared(w) ==
    /\ pc[w] \in {"next", "ysynth"}
    /\ IF it[w].k < SegCount(it[w].call)
       THEN /\ out' = [out EXCEPT ![1] =
                        Emit(@, Segment(it[w].call, it[w].k + 1, rng))]
            /\ rng' = Advance(rng)
            /\ it' = [it EXCEPT ![w].k = @ + 1]
            /\ log' = [log EXCEPT ![w] = Append(@, Yield(113))]
            /\ pc' = [pc EXCEPT ![w] = "ysynth"]
       ELSE /\ pc' = [pc EXCEPT ![w] = "done"]
            /\ UNCHANGED <<out, rng, it, log>>
    /\ UNCHANGED <<updates, waveform, conditioned, instruct, req, prompt_wav, prompt_speech_16k, err>>

(* The for loop asks the engine for its next segment: the engine draws from *)
(* the random source and the segment is yielded as one chunk (lines 113,    *)
(* 119, 125, 130), or the engine is exhausted and the generator returns.    *)
Relay(w) ==
    /\ pc[w] \in {"next", "ysynth"}
    /\ IF it[w].k < SegCount(it[w].call)
       THEN /\ out' = [out EXCEPT ![w] =
                        Emit(@, Segment(it[w].call, it[w].k + 1, rng))]
            /\ rng' = Advance(rng)
            /\ it' = [it EXCEPT ![w].k = @ + 1]
            /\ log' = [log EXCEPT ![w] = Append(@, Yield(113))]
            /\ pc' = [pc EXCEPT ![w] = "ysynth"]
       ELSE /\ pc' = [pc EXCEPT ![w] = "done"]
            /\ UNCHANGED <<out, rng, it, log>>
    /\ UNCHANGED <<updates, waveform, conditioned, instruct, req, prompt_wav, prompt_speech_16k, err>>

\* the engine's exception caught and answered with the placeholder
EngineRaiseHandled(w) ==
    /\ pc[w] \in {"next", "ysynth"}
    /\ pc' = [pc EXCEPT ![w] = "done"]
    /\ err' = [err EXCEPT ![w] = "engine"]
    /\ out' = [out EXCEPT ![w] = Append(@, Placeholder)]
    /\ UNCHANGED <<updates, waveform, conditioned, instruct, req, prompt_wav, prompt_speech_16k, it, log, rng>>

(* The engine raises while producing its next segment; generate_audio has   *)
(* no handler, the exception ends the generator.                            *)
EngineRaise(w) ==
    /\ pc[w] \in {"next", "ysynth"}
    /\ pc' = [pc EXCEPT ![w] = "failed"]
    /\ err' = [err EXCEPT ![w] = "engine"]
    /\ UNCHANGED <<updates, waveform, conditioned, instruct, req, prompt_wav, prompt_speech_16k, it, out, log, rng>>

\* closing lets the for loop fetch the segment after the one just delivered
CloseAfterNextSegment(w) ==
    /\ pc[w] \in {"new", "ysynth"} \cup ValidationYields
    /\ pc' = [pc EXCEPT ![w] = "closed"]
    /\ IF pc[w] = "ysynth" /\ it[w].k < SegCount(it[w].call)
       THEN /\ it' = [it EXCEPT ![w].k = @ + 1]
            /\ rng' = Advance(rng)
       ELSE UNCHANGED <<it, rng>>
    /\ UNCHANGED <<updates, waveform, conditioned, instruct, req, prompt_wav, prompt_speech_16k, out, log, err>>

(* The caller stops pulling and closes the generator where it is suspended. *)
Close(w) ==
    /\ pc[w] \in {"new", "ysynth"} \cup ValidationYields
    /\ pc' = [pc EXCEPT ![w] = "closed"]
    /\ UNCHANGED <<updates, waveform, conditioned, instruct, req, prompt_wav, prompt_speech_16k, it, out, log, err, rng>>

----------------------------------------------------------------------------
(* Lines 39-44: the seed generator behind the dice button *)

\* raw draws of a source nobody has seeded yet
RawSamples == {0, 99999999, 100000000, 2147483647}

\* the raw draw of a seeded source: fixed by the seed and by the number of
\* draws made since the seeding
RawOf(r) == 99999999 + r.seed + r.n

\* the raw draws the random source can deliver next
RawChoices(r) == IF r.seed = Unseeded.seed THEN RawSamples ELSE {RawOf(r)}

\* random.randint(a, b): a + randbelow(b - a + 1)
randint(a, b, raw) == a + (raw % (b - a + 1))

\* the seed drawn from 0 upwards
generate_seed_from_zero(raw) ==
    [type |-> "update", value |-> randint(0, 100000000, raw)]

\* lines 40-44
generate_seed(raw) ==
    [type |-> "update", value |-> randint(1, 100000000, raw)]

(* seed_button.click(generate_seed, inputs=[], outputs=seed), line 161 *)
GenerateSeed ==
    /\ Len(updates) < MaxClicks
    /\ \E raw \in RawChoices(rng) : updates' = Append(updates, generate_seed(raw))
    /\ rng' = Advance(rng)
    /\ UNCHANGED <<waveform, conditioned, instruct, req, pc, prompt_wav,
                   prompt_speech_16k, it, out, log, err>>

----------------------------------------------------------------------------
Step(w) ==
    \/ Validate(w)
    \/ LoadPrompt(w)
    \/ Seed(w)
    \/ Invoke(w)
    \/ Relay(w)
    \/ EngineRaise(w)
    \/ Close(w)

\* one caller at a time, any request
Next ==
    \/ pc[1] = "idle" /\ \E q \in AllRequests : Submit(1, q)
    \/ Step(1)

Spec == Init /\ [][Next]_vars

\* up to default_concurrency_limit callers at once
ConcNext ==
    \/ \E w \in Workers : pc[w] = "idle" /\ \E q \in ConcRequests : Submit(w, q)
    \/ \E w \in Workers : Step(w)

ConcSpec == Init /\ [][ConcNext]_vars

\* one caller generates, lets the stream end, edits the form, generates again
PairNext ==
    \/ pc[1] = "idle" /\ \E q \in PairRequests : Submit(1, q)
    \/ Step(1)
    \/ /\ pc[1] = "done"
       /\ pc[2] = "idle"
       /\ \E q \in PairRequests : Edited(req[1], q) /\ Submit(2, q)
    \/ Step(2)

PairSpec == Init /\ [][PairNext]_vars

\* one caller generating, the dice button clicked at any moment
SeedNext ==
    \/ pc[1] = "idle" /\ \E q \in ConcRequests : Submit(1, q)
    \/ Step(1)
    \/ GenerateSeed

SeedSpec == Init /\ [][SeedNext]_vars

----------------------------------------------------------------------------
(* The audio conditioner on its own: postprocess called on a waveform *)

CondInit ==
    /\ instruct = FALSE
    /\ req = [w \in Workers |-> NoRequest]
    /\ pc = [w \in Workers |-> "idle"]
    /\ prompt_wav = [w \in Workers |-> None]
    /\ prompt_speech_16k = [w \in Workers |-> NoSpeech]
    /\ it = [w \in Workers |-> NoIterator]
    /\ out = [w \in Workers |-> <<>>]
    /\ log = [w \in Workers |-> <<>>]
    /\ err = [w \in Workers |-> None]
    /\ rng = Unseeded
    /\ updates = <<>>
    /\ waveform \in Waves
    /\ conditioned = NoSpeech

\* speech = postprocess(speech)
Postprocess ==
    /\ conditioned = NoSpeech
    /\ conditioned' = postprocess(waveform)
    /\ UNCHANGED <<updates, waveform, instruct, req, pc, prompt_wav,
                   prompt_speech_16k, it, out, log, err, rng>>

CondNext == Postprocess

CondSpec == CondInit /\ [][CondNext]_vars

----------------------------------------------------------------------------
(* Vocabulary of the properties *)

Range(sq) == {sq[i] : i \in DOMAIN sq}

Running == {w \in Workers : pc[w] # "idle"}

\* the events of one kind in a worker's log, in order
Events(w, kind) == SelectSeq(log[w], LAMBDA e : e.e = kind)

\* the effective prompt audio of a request: the upload, else the recording
Effective(q) ==
    IF q.prompt_wav_upload # None THEN q.prompt_wav_upload ELSE q.prompt_wav_record

\* the table of fatal conditions, per mode
FatalCondition(q, ins) ==
    LET pw == Effective(q)
    IN  CASE q.mode_checkbox_group = InstructControl ->
                ins = FALSE \/ q.instruct_text = ""
          [] q.mode_checkbox_group = CrossLingual ->
                ins = TRUE \/ pw = None \/ FileRate(pw) < 16000
          [] q.mode_checkbox_group = RapidCloning ->
                pw = None \/ FileRate(pw) < 16000 \/ q.prompt_text = ""
          [] q.mode_checkbox_group = PretrainedVoice -> FALSE

Fatal(w) == w \in Running /\ FatalCondition(req[w], instruct)

Passing(w) == w \in Running /\ ~FatalCondition(req[w], instruct)

\* the generator has returned or raised: the stream was pulled to its end
Exhausted(w) == pc[w] \in {"done", "failed"}

\* the generator has left the checks of lines 69-107
ChecksOver(w) == pc[w] \in {"load", "seed", "invoke", "next", "ysynth", "done", "failed"}

----------------------------------------------------------------------------
(* C1: a request with a fatal condition of its mode delivers exactly one   *)
(* chunk, the placeholder (22050, 22050 zeros), and then ends normally: no *)
(* second placeholder, no synthesized chunk, no raised error.              *)
C1_FatalStreamIsOnePlaceholder ==
    \A w \in Workers :
        Fatal(w) =>
            /\ Len(out[w]) <= 1
            /\ \A i \in DOMAIN out[w] : out[w][i] = <<22050, Zeros(22050)>>
            /\ pc[w] # "failed"
            /\ (Exhausted(w) => out[w] = <<<<22050, Zeros(22050)>>>>)

(* C2: for a request with a fatal condition of its mode no synthesis       *)
(* operation is invoked, the random source is not seeded and the audio     *)
(* conditioner is not run, however far the stream is pulled.               *)
C2_FatalNeverReachesEngine ==
    \A w \in Workers :
        Fatal(w) =>
            /\ Events(w, "inference") = <<>>
            /\ Events(w, "set_all_random_seed") = <<>>
            /\ Events(w, "postprocess") = <<>>

(* C3: generate_audio emits the placeholder chunk if and only if a fatal   *)
(* condition of the active mode holds; when it does, the placeholder is    *)
(* the first chunk of the stream, and a request with only advisory         *)
(* conditions emits none.                                                  *)
C3_PlaceholderIffFatal ==
    \A w \in Running :
        /\ (Placeholder \in Range(out[w]) => FatalCondition(req[w], instruct))
        /\ (FatalCondition(req[w], instruct) /\ out[w] # <<>> => out[w][1] = Placeholder)
        /\ (FatalCondition(req[w], instruct) /\ ChecksOver(w) => Placeholder \in Range(out[w]))

\* 3s Rapid Cloning, empty prompt text, a valid 16 kHz prompt: the placeholder is out
C3_Witness ==
    /\ req[1].mode_checkbox_group = RapidCloning
    /\ req[1].prompt_text = ""
    /\ prompt_wav[1] = "quiet.wav"
    /\ FileRate(prompt_wav[1]) = 16000
    /\ pc[1] = "y105"
    /\ out[1] = <<Placeholder>>

----------------------------------------------------------------------------
(* C4: a Pre-trained Voice request is never fatal, whatever its prompt and *)
(* instruct fields hold; over its life exactly one synthesis operation is  *)
(* invoked, inference_sft with the request's text and voice, once, after   *)
(* the random source was seeded with the request's seed; only the advisory *)
(* message depends on the other fields.                                    *)
C4_PretrainedVoiceAlwaysSft ==
    \A w \in Running :
        req[w].mode_checkbox_group = PretrainedVoice =>
            LET calls == Events(w, "inference")
                q == req[w]
                extra == \/ q.instruct_text # ""
                         \/ q.prompt_wav_upload # None
                         \/ q.prompt_wav_record # None
                         \/ q.prompt_text # ""
            IN  /\ Placeholder \notin Range(out[w])
                /\ Events(w, "Warning") = <<>>
                /\ err[w] \in {None, "engine"}
                /\ Len(calls) <= 1
                /\ \A i \in DOMAIN calls :
                      /\ calls[i].call.op = "inference_sft"
                      /\ calls[i].call.tts_text = q.tts_text
                      /\ calls[i].call.spk = q.sft_dropdown
                /\ \A i \in DOMAIN log[w] :
                      log[w][i].e = "inference" =>
                          /\ i > 1
                          /\ log[w][i - 1] = [e |-> "set_all_random_seed", seed |-> q.seed]
                /\ Len(Events(w, "set_all_random_seed")) <= 1
                /\ (pc[w] \in {"next", "ysynth", "done"} => Len(calls) = 1)
                /\ (ChecksOver(w) =>
                      Events(w, "Info") = IF extra THEN <<Info(100)>> ELSE <<>>)

\* a Pre-trained Voice request with every ignored field filled in has run to its end
C4_Witness ==
    /\ req[1].mode_checkbox_group = PretrainedVoice
    /\ req[1].prompt_text # ""
    /\ req[1].prompt_wav_upload # None
    /\ req[1].instruct_text # ""
    /\ req[1].seed = 42
    /\ req[1].sft_dropdown = sft_spk[1]
    /\ pc[1] = "done"
    /\ Len(out[1]) = 2
    /\ Len(Events(1, "inference")) = 1

\* the arguments the claim gives for the operation of each mode
MatchesMode(c, q) ==
    /\ c.tts_text = q.tts_text
    /\ c.stream = q.stream
    /\ c.speed = q.speed
    /\ CASE q.mode_checkbox_group = PretrainedVoice ->
                /\ c.op = "inference_sft"
                /\ c.spk = q.sft_dropdown
         [] q.mode_checkbox_group = RapidCloning ->
                /\ c.op = "inference_zero_shot"
                /\ c.prompt_text = q.prompt_text
                /\ c.prompt_speech = postprocess(FileWave(Effective(q)))
                /\ c.prompt_speech # FileWave(Effective(q))
         [] q.mode_checkbox_group = CrossLingual ->
                /\ c.op = "inference_cross_lingual"
                /\ c.prompt_speech = postprocess(FileWave(Effective(q)))
                /\ c.prompt_speech # FileWave(Effective(q))
         [] q.mode_checkbox_group = InstructControl ->
                /\ c.op = "inference_instruct"
                /\ c.spk = q.sft_dropdown
                /\ c.instruct_text = q.instruct_text

(* C5: for a request that passes validation exactly one of the four        *)
(* synthesis operations is invoked, once: the one of the mode, with the    *)
(* request's text, stream and speed and the mode's own arguments; in the   *)
(* two cloning modes the audio passed is the conditioned prompt audio,     *)
(* never the raw waveform.                                                 *)
C5_OneMatchingOperation ==
    \A w \in Workers :
        Passing(w) =>
            LET calls == Events(w, "inference")
            IN  /\ Len(calls) <= 1
                /\ \A i \in DOMAIN calls : MatchesMode(calls[i].call, req[w])
                /\ (pc[w] \in {"next", "ysynth", "done"} => Len(calls) = 1)
                /\ (pc[w] \in {"next", "ysynth", "done"} => MatchesMode(it[w].call, req[w]))

\* a 3s Rapid Cloning request with a loud prompt has passed validation and run to its end
C5_Witness ==
    /\ Passing(1)
    /\ req[1].mode_checkbox_group = RapidCloning
    /\ Effective(req[1]) = "loud.wav"
    /\ pc[1] = "done"
    /\ Len(Events(1, "inference")) = 1
    /\ AbsMax(FileWave("loud.wav")) > max_val
    /\ AbsMax(it[1].call.prompt_speech) = max_val

(* C6: for a request that passes validation the stream is, at any time,    *)
(* the segments the operation has produced so far, one chunk (22050, s_i)  *)
(* per segment, in order, nothing dropped, repeated or inserted; it ends   *)
(* exactly when the operation's output is exhausted.                       *)
C6_StreamIsTheSegments ==
    \A w \in Workers :
        Passing(w) =>
            /\ Len(out[w]) = it[w].k
            /\ \A i \in DOMAIN out[w] :
                  /\ out[w][i][1] = 22050
                  /\ out[w][i][2].k = i
                  /\ out[w][i][2].call = it[w].call
            /\ (it[w] # NoIterator => it[w].k <= SegCount(it[w].call))
            /\ (pc[w] = "done" => Len(out[w]) = SegCount(it[w].call))
            /\ (pc[w] = "ysynth" => Len(out[w]) >= 1)
            /\ (pc[w] = "failed" => err[w] = "engine")

\* a passing request whose operation yielded two segments has ended
C6_Witness ==
    /\ Passing(1)
    /\ pc[1] = "done"
    /\ SegCount(it[1].call) = 2
    /\ Len(out[1]) = 2
    /\ out[1][1] # out[1][2]

----------------------------------------------------------------------------
\* between its seeding and the end of its synthesis stream
InCritical(w) == pc[w] \in {"invoke", "next", "ysynth"}

(* C7: the seed-then-generate sequences of concurrent requests are         *)
(* serialized: while one request is between its set_all_random_seed call   *)
(* and the exhaustion of its synthesis stream, no other request has seeded *)
(* the shared random source or draws from it.                              *)
C7_SeedGenerateSerialized ==
    \A w1, w2 \in Workers :
        w1 # w2 => ~(InCritical(w1) /\ InCritical(w2))

\* the fields the determinism claim names
SameInputs(q1, q2) ==
    /\ q1.mode_checkbox_group = q2.mode_checkbox_group
    /\ q1.tts_text = q2.tts_text
    /\ Effective(q1) = Effective(q2)
    /\ q1.prompt_text = q2.prompt_text
    /\ q1.instruct_text = q2.instruct_text
    /\ q1.speed = q2.speed
    /\ q1.seed = q2.seed

(* C8: two requests with the same mode, text, effective prompt audio,      *)
(* prompt text, instruct text, speed and seed that both ran to their end   *)
(* delivered the same sequence of chunks, whatever ran before or alongside.*)
C8_SeedDeterminism ==
    \A w1, w2 \in Workers :
        (pc[w1] = "done" /\ pc[w2] = "done" /\ SameInputs(req[w1], req[w2]))
            => out[w1] = out[w2]

\* the synthesized chunks of a stream, in the order delivered
Synthesized(w) == SelectSeq(out[w], LAMBDA c : c # Placeholder)

(* C9: with concurrent requests every synthesized chunk on a request's     *)
(* stream is a segment of that request's own synthesis invocation, the     *)
(* segments are on the stream in generation order, each once, and no       *)
(* segment of another request's invocation is on it.                       *)
C9_StreamsIndependent ==
    \A w \in Running :
        LET sy == Synthesized(w)
            calls == Events(w, "inference")
        IN  /\ Len(sy) = it[w].k
            /\ (sy # <<>> => Len(calls) = 1)
            /\ \A i \in DOMAIN sy :
                  /\ sy[i][2].call = calls[1].call
                  /\ sy[i][2].call = it[w].call
                  /\ sy[i][2].k = i

\* two different requests ran interleaved, and each stream holds its own two segments
C9_Witness ==
    /\ pc[1] = "done"
    /\ pc[2] = "done"
    /\ req[1] # req[2]
    /\ Len(out[1]) = 2
    /\ Len(out[2]) = 2
    /\ out[1][1][2].rand.seed = req[1].seed
    /\ out[1][2][2].rand.seed = req[2].seed
    /\ req[1].seed # req[2].seed

(* C10: the effective prompt audio is resolved once, before any check: the *)
(* upload if present, else the recording if present, else none; every      *)
(* probe, load and conditioning uses it, and when both are given the       *)
(* recording is never read.                                                *)
C10_UploadTakesPriority ==
    \A w \in Running :
        LET q == req[w]
            eff == IF q.prompt_wav_upload # None THEN q.prompt_wav_upload
                   ELSE IF q.prompt_wav_record # None THEN q.prompt_wav_record
                   ELSE None
            reads == {i \in DOMAIN log[w] : log[w][i].e \in {"torchaudio.info", "load_wav"}}
        IN  /\ (pc[w] = "new" => log[w] = <<>>)
            /\ (pc[w] # "new" /\ ~(pc[w] = "closed" /\ log[w] = <<>>) => prompt_wav[w] = eff)
            /\ \A i \in reads : log[w][i].file = eff
            /\ (q.prompt_wav_upload # None /\ q.prompt_wav_record # q.prompt_wav_upload =>
                    \A i \in reads : log[w][i].file # q.prompt_wav_record)
            /\ \A i \in DOMAIN log[w] :
                  log[w][i].e = "postprocess" =>
                      log[w][i].speech = postprocess(FileWave(eff))

\* upload and recording both given and different: the upload was probed and loaded
C10_Witness ==
    /\ pc[1] = "seed"
    /\ req[1].mode_checkbox_group = RapidCloning
    /\ req[1].prompt_wav_upload = "loud.wav"
    /\ req[1].prompt_wav_record = "quiet.wav"
    /\ prompt_wav[1] = "loud.wav"
    /\ Events(1, "load_wav") = <<[e |-> "load_wav", file |-> "loud.wav"]>>
    /\ Len(Events(1, "torchaudio.info")) = 1

----------------------------------------------------------------------------
\* the two requests are in the same mode and agree on every field the mode
\* does not ignore
AgreeButIgnored(q1, q2) ==
    /\ q1.mode_checkbox_group = q2.mode_checkbox_group
    /\ q1.tts_text = q2.tts_text
    /\ q1.seed = q2.seed
    /\ q1.stream = q2.stream
    /\ q1.speed = q2.speed
    /\ CASE q1.mode_checkbox_group = RapidCloning ->
                Effective(q1) = Effective(q2) /\ q1.prompt_text = q2.prompt_text
          [] q1.mode_checkbox_group = CrossLingual ->
                Effective(q1) = Effective(q2)
          [] q1.mode_checkbox_group = InstructControl ->
                q1.instruct_text = q2.instruct_text /\ q1.sft_dropdown = q2.sft_dropdown
          [] OTHER -> q1 = q2

\* sequence s is an initial part of sequence t
Prefix(s, t) == Len(s) <= Len(t) /\ \A i \in 1..Len(s) : s[i] = t[i]

(* C11: the fields a mode ignores never influence synthesis. Two requests  *)
(* that both pass validation, are in the same mode and differ only in      *)
(* ignored fields (3s Rapid Cloning: instruct text, voice; Cross-lingual:  *)
(* instruct text, prompt text, voice; Natural Language Control: prompt     *)
(* text, prompt audio) invoke the same operation with the same arguments,  *)
(* seed with the same value and relay the same chunk sequence.             *)
C11_IgnoredFieldsDoNotInfluence ==
    \A w1 \in Workers : \A w2 \in Workers :
        (Passing(w1) /\ Passing(w2) /\ AgreeButIgnored(req[w1], req[w2])) =>
            /\ \/ Events(w1, "inference") = <<>>
               \/ Events(w2, "inference") = <<>>
               \/ Events(w1, "inference") = Events(w2, "inference")
            /\ \/ Events(w1, "set_all_random_seed") = <<>>
               \/ Events(w2, "set_all_random_seed") = <<>>
               \/ Events(w1, "set_all_random_seed") = Events(w2, "set_all_random_seed")
            /\ Prefix(out[w1], out[w2]) \/ Prefix(out[w2], out[w1])
            /\ (pc[w1] = "done" /\ pc[w2] = "done") => out[w1] = out[w2]

C11_Witness ==
    /\ pc[1] = "done"
    /\ pc[2] = "done"
    /\ Passing(1)
    /\ Passing(2)
    /\ req[1].mode_checkbox_group = CrossLingual
    /\ AgreeButIgnored(req[1], req[2])
    /\ req[1].prompt_text # req[2].prompt_text
    /\ req[1].instruct_text # req[2].instruct_text
    /\ req[1].sft_dropdown # req[2].sft_dropdown
    /\ Len(out[2]) > 1
    /\ out[1] = out[2]

----------------------------------------------------------------------------
\* nothing of worker w's generator or stream changes in the step
Untouched(w) ==
    /\ out'[w] = out[w]
    /\ log'[w] = log[w]
    /\ it'[w] = it[w]
    /\ err'[w] = err[w]
    /\ prompt_speech_16k'[w] = prompt_speech_16k[w]

(* C12: when the caller closes the stream after k chunks, the generator    *)
(* pulls no further segment from the engine, neither seeds nor calls the   *)
(* engine again, and the k chunks already delivered stay as they are: the  *)
(* closing step and every later step leave the stream, the log, the        *)
(* engine iterator and (while no other request runs) the random source     *)
(* unchanged, and a closed generator stays closed.                         *)
C12_CloseStopsTheGenerator ==
    [][\A w \in Workers :
          /\ pc'[w] = "closed" /\ pc[w] # "closed" => Untouched(w) /\ rng' = rng
          /\ pc[w] = "closed" =>
                /\ pc'[w] = "closed"
                /\ Untouched(w)
                /\ (\A v \in Workers \ {w} : pc[v] \in {"idle", "done", "failed", "closed"})
                      => rng' = rng]_vars

\* closed after the first of two segments, another request running on
C12_Witness ==
    /\ pc[1] = "closed"
    /\ Len(out[1]) = 1
    /\ it[1].k = 1
    /\ SegCount(it[1].call) = 2
    /\ pc[2] = "done"
    /\ Len(out[2]) = 2

(* C13: when the engine raises after k segments (k >= 0), the caller has   *)
(* exactly those k chunks, in order, and then the failure: the generator   *)
(* ends failed, it has seeded once and invoked the engine once, no         *)
(* placeholder stands in for the failure, and nothing is seeded, invoked   *)
(* or emitted afterwards.                                                  *)
C13_EngineFailurePropagates ==
    /\ [](\A w \in Workers :
            err[w] = "engine" =>
                /\ pc[w] = "failed"
                /\ Len(Events(w, "inference")) = 1
                /\ Len(Events(w, "set_all_random_seed")) = 1
                /\ Len(Synthesized(w)) = it[w].k
                /\ \A i \in 1..it[w].k :
                      /\ Synthesized(w)[i][2].call = it[w].call
                      /\ Synthesized(w)[i][2].k = i
                /\ Len(out[w]) - it[w].k =
                      Len(SelectSeq(log[w], LAMBDA e : e.e = "yield" /\ e.line # 113))
                /\ Passing(w) => out[w] = Synthesized(w))
    /\ [][\A w \in Workers :
            pc[w] = "failed" => pc'[w] = "failed" /\ Untouched(w) /\ rng' = rng]_vars

\* the engine raised after the first of two segments
C13_Witness ==
    /\ err[1] = "engine"
    /\ Passing(1)
    /\ Len(out[1]) = 1
    /\ it[1].k = 1
    /\ SegCount(it[1].call) = 2

----------------------------------------------------------------------------
\* the values the next generate_seed can return with the random source in state r
SeedResults(r) == {generate_seed(raw).value : raw \in RawChoices(r)}

(* C14: the seed generator is independent of dispatch. Whatever requests   *)
(* were dispatched before, with whatever seeds, and whatever randomness    *)
(* they consumed, the set of values the next generate_seed can return is   *)
(* the same: the one it has with no request dispatched at all.             *)
C14_SeedGeneratorIndependent == SeedResults(rng) = SeedResults(Unseeded)

(* C15: every invocation of generate_seed, in any state, returns an update *)
(* whose value is an integer v with 1 <= v <= 100000000, both ends         *)
(* included, and changes nothing in any request.                           *)
C15_SeedInRange ==
    [][updates' # updates =>
          /\ Len(updates') = Len(updates) + 1
          /\ SubSeq(updates', 1, Len(updates)) = updates
          /\ LET u == updates'[Len(updates')]
             IN  /\ u.type = "update"
                 /\ u.value \in Int
                 /\ 1 <= u.value
                 /\ u.value <= 100000000
          /\ UNCHANGED <<req, pc, prompt_wav, prompt_speech_16k, it, out, log, err>>]_vars

\* both ends of the range returned, with a request suspended at a yield
C15_Witness ==
    /\ Len(updates) = 2
    /\ updates[1].value = 100000000
    /\ updates[2].value = 1
    /\ pc[1] = "ysynth"
    /\ Len(out[1]) = 1

----------------------------------------------------------------------------
(* C16: in every mode a request that reaches dispatch calls                *)
(* set_all_random_seed exactly once, with the request's seed, as the last  *)
(* thing before the synthesis operation is invoked: every warning, info,   *)
(* probe, load and conditioning of the request comes before the seeding,   *)
(* and between the seeding and the invocation no chunk is emitted and      *)
(* nothing else is called.                                                 *)
C16_SeedJustBeforeInvocation ==
    \A w \in Running :
        /\ Len(Events(w, "set_all_random_seed")) <= 1
        /\ pc[w] = "invoke" =>
              /\ log[w] # <<>>
              /\ log[w][Len(log[w])] = Seeding(req[w].seed)
        /\ \A i \in DOMAIN log[w] :
              /\ log[w][i].e = "inference" =>
                    /\ i > 1
                    /\ log[w][i - 1] = Seeding(req[w].seed)
                    /\ Len(Events(w, "set_all_random_seed")) = 1
                    /\ Len(Events(w, "inference")) = 1
              /\ log[w][i].e = "set_all_random_seed" =>
                    /\ log[w][i].seed = req[w].seed
                    /\ \A j \in 1..(i - 1) : log[w][j].e # "inference"
                    /\ \A j \in (i + 1)..Len(log[w]) :
                          \/ j = i + 1 /\ log[w][j].e = "inference"
                          \/ j > i + 1 /\ log[w][j] = Yield(113)

\* a cloning request seeded after its prompt was loaded and conditioned,
\* the engine invoked and a chunk relayed
C16_Witness ==
    /\ pc[1] = "ysynth"
    /\ req[1].mode_checkbox_group = CrossLingual
    /\ req[1].seed = 42
    /\ Passing(1)
    /\ Len(out[1]) = 1
    /\ \E i \in DOMAIN log[1] :
          /\ i > 2
          /\ log[1][i - 2].e = "postprocess"
          /\ log[1][i - 1] = Seeding(42)
          /\ log[1][i].e = "inference"

----------------------------------------------------------------------------
\* the waveform after librosa's trim, as postprocess calls it
Trimmed == trim(waveform, top_db, win_length, hop_length)

(* C17: clipping law. For every input waveform the peak absolute amplitude *)
(* of what postprocess returns is at most 0.8; if the peak of the trimmed  *)
(* signal is above 0.8, every sample is rescaled by 0.8 / peak (to the     *)
(* resolution of the amplitudes) and the new peak is exactly 0.8; if it is *)
(* at most 0.8 the samples are unchanged; and applying the rescaling step  *)
(* to the conditioned signal again changes nothing.                        *)
C17_ClippingLaw ==
    conditioned # NoSpeech =>
        LET trimmed == Trimmed
            peak == AbsMax(trimmed)
        IN  /\ AbsMax(conditioned) <= 80
            /\ peak > 80 =>
                  /\ AbsMax(conditioned) = 80
                  /\ \A i \in 1..trimmed.len :
                        Abs(Sample(conditioned, i) * peak - Sample(trimmed, i) * 80) < peak
            /\ peak <= 80 =>
                  \A i \in 1..trimmed.len : Sample(conditioned, i) = Sample(trimmed, i)
            /\ (IF AbsMax(conditioned) > max_val
                  THEN Rescale(conditioned, AbsMax(conditioned))
                  ELSE conditioned) = conditioned

\* a waveform with silence trimmed off, a peak of 1.0 brought down to 0.8 and
\* a smaller sample scaled with it
C17_Witness ==
    /\ conditioned # NoSpeech
    /\ Trimmed.len < waveform.len
    /\ AbsMax(Trimmed) = 100
    /\ AbsMax(conditioned) = 80
    /\ \E i \in DOMAIN conditioned.nz : conditioned.nz[i] = -24

(* C18: padding law. What postprocess returns is as long as the trimmed    *)
(* signal plus exactly int(0.2 * 22050) = 4410 samples; the appended       *)
(* samples are all zero and stand at the end; the samples before them are  *)
(* the trimmed, possibly rescaled, signal in its original order.           *)
C18_PaddingLaw ==
    conditioned # NoSpeech =>
        LET trimmed == Trimmed
            scaled == IF AbsMax(trimmed) > max_val
                      THEN Rescale(trimmed, AbsMax(trimmed))
                      ELSE trimmed
        IN  /\ conditioned.len = trimmed.len + 4410
            /\ \A i \in (trimmed.len + 1)..conditioned.len : Sample(conditioned, i) = 0
            /\ \A i \in 1..trimmed.len : Sample(conditioned, i) = Sample(scaled, i)

\* a trimmed waveform whose last sample is non-zero, followed by the padding
C18_Witness ==
    /\ conditioned # NoSpeech
    /\ Trimmed.len < waveform.len
    /\ Sample(conditioned, Trimmed.len) # 0
    /\ conditioned.len = Trimmed.len + 4410
    /\ Sample(conditioned, conditioned.len) = 0

----------------------------------------------------------------------------
(* C19: torchaudio.info and load_wav are only ever called with prompt      *)
(* audio that is present: a 3s Rapid Cloning or Cross-lingual request      *)
(* without uploaded or recorded audio never reaches a call that reads the  *)
(* absent audio and never fails with an unhandled error, however far the   *)
(* caller pulls the stream.                                                *)
C19_PromptAudioPresentWhenRead ==
    \A w \in Workers :
        /\ err[w] # "torchaudio.info"
        /\ \A i \in DOMAIN log[w] :
              log[w][i].e \in {"torchaudio.info", "load_wav"} => log[w][i].file # None

====
